---- MODULE Spec2Model ----
(***************************************************************************)
(* voicemsg: VoiceMsg.record() -- a listener thread that reads frames from *)
(* the audio device into a bounded queue, a recorder thread that inspects   *)
(* the queue in windows of silence_duration seconds and writes the WAV      *)
(* file, and the calling thread that supervises both; and                   *)
(* VoiceMsg.calibrate(), which sets the silence threshold.                  *)
(***************************************************************************)
EXTENDS Integers, Sequences, FiniteSets, TLC

(***************************************************************************)
(* Python floats (IEEE-754 binary64, round to nearest even).                *)
(* A non-negative float is [m |-> bits, e |-> exponent]: its value is       *)
(* m * 2^e, m written as a sequence of bits, least significant first, with  *)
(* neither a low nor a high zero bit (zero is the empty sequence, e = 0).   *)
(***************************************************************************)
MantissaBits == 53

RECURSIVE BitsOfNat(_)
BitsOfNat(n) == IF n = 0 THEN <<>> ELSE <<n % 2>> \o BitsOfNat(n \div 2)

RECURSIVE NatOfBits(_)
NatOfBits(b) == IF b = <<>> THEN 0 ELSE Head(b) + 2 * NatOfBits(Tail(b))

Zeros(k) == IF k <= 0 THEN <<>> ELSE [i \in 1..k |-> 0]

Pow2 == <<1, 2, 4, 8, 16, 32, 64, 128, 256, 512, 1024, 2048, 4096, 8192, 16384, 32768>>

\* the index of the highest 1 bit of b, 0 when there is none
HighBit(b) ==
    IF \A i \in 1..Len(b) : b[i] = 0 THEN 0
    ELSE CHOOSE i \in 1..Len(b) : b[i] = 1 /\ \A j \in (i + 1)..Len(b) : b[j] = 0

\* the index of the lowest 1 bit of b (b has one)
LowBit(b) == CHOOSE i \in 1..Len(b) : b[i] = 1 /\ \A j \in 1..(i - 1) : b[j] = 0

TrimHigh(b) == SubSeq(b, 1, HighBit(b))

\* the canonical form of m * 2^e
Canon(m, e) ==
    IF HighBit(m) = 0 THEN [m |-> <<>>, e |-> 0]
    ELSE [m |-> SubSeq(m, LowBit(m), HighBit(m)), e |-> e + LowBit(m) - 1]

\* bits 15j+1 .. 15j+15 of b, as a number
Limb(b, j) ==
    IF 15 * j >= Len(b) THEN 0
    ELSE NatOfBits(SubSeq(b, 15 * j + 1, IF 15 * j + 15 < Len(b) THEN 15 * j + 15 ELSE Len(b)))

\* the limbs of a + b from limb j on, given the carry into limb j; n limbs in all
RECURSIVE LimbsAdd(_, _, _, _, _)
LimbsAdd(a, b, j, n, c) ==
    IF j = n THEN <<c>>
    ELSE LET s == Limb(a, j) + Limb(b, j) + c
         IN  <<s % 32768>> \o LimbsAdd(a, b, j + 1, n, s \div 32768)

BitsAdd(a, b) ==
    LET len == IF Len(a) > Len(b) THEN Len(a) ELSE Len(b)
        n   == (len + 14) \div 15
        l   == LimbsAdd(a, b, 0, n, 0)
    IN  TrimHigh([i \in 1..(15 * (n + 1)) |->
                     (l[((i - 1) \div 15) + 1] \div Pow2[((i - 1) % 15) + 1]) % 2])

\* m * 2^e, exact, rounded to MantissaBits significant bits (ties to even)
FloatRound(m0, e) ==
    LET m == TrimHigh(m0)
        k == Len(m) - MantissaBits
    IN  IF k <= 0 THEN Canon(m, e)
        ELSE LET kept   == SubSeq(m, k + 1, Len(m))
                 half   == m[k] = 1
                 sticky == \E i \in 1..(k - 1) : m[i] = 1
                 up     == half /\ (sticky \/ kept[1] = 1)
             IN  Canon(IF up THEN BitsAdd(kept, <<1>>) ELSE kept, e + k)

FloatOfInt(n) == Canon(BitsOfNat(n), 0)

\* the bits of x's mantissa at exponent e <= x.e
AlignTo(x, e) == IF x.m = <<>> THEN <<>> ELSE Zeros(x.e - e) \o x.m

MinExp(x, y) ==
    IF x.m = <<>> THEN y.e
    ELSE IF y.m = <<>> THEN x.e
    ELSE IF x.e < y.e THEN x.e ELSE y.e

\* x + y
FloatAdd(x, y) ==
    LET e == MinExp(x, y)
    IN  FloatRound(BitsAdd(AlignTo(x, e), AlignTo(y, e)), e)

\* a * b, exact, a the short factor
RECURSIVE BitsMul(_, _)
BitsMul(a, b) ==
    IF a = <<>> THEN <<>>
    ELSE LET rest == BitsMul(Tail(a), b)
             sh   == IF rest = <<>> THEN <<>> ELSE <<0>> \o rest
         IN  IF Head(a) = 1 THEN BitsAdd(b, sh) ELSE sh

\* x * y (the product is exact before rounding; the shorter mantissa multiplies)
FloatMul(x, y) ==
    FloatRound(IF Len(x.m) <= Len(y.m) THEN BitsMul(x.m, y.m) ELSE BitsMul(y.m, x.m),
               x.e + y.e)

\* 2^k mod d
RECURSIVE Pow2Mod(_, _)
Pow2Mod(k, d) ==
    IF k = 0 THEN 1 % d
    ELSE LET h == Pow2Mod(k \div 2, d)
         IN  (((h * h) % d) * (IF k % 2 = 1 THEN 2 ELSE 1)) % d

\* long division: bit k after the binary point of r / d (r < d) is
\* floor(2 * ((r * 2^(k-1)) mod d) / d)
FracBit(r, d, k) == (2 * ((r * Pow2Mod(k - 1, d)) % d)) \div d

\* a / b for two ints, as Python's true division gives it: 64 bits after the
\* binary point and one sticky bit, then rounded
FloatDivInt(a, b) ==
    LET r      == a % b
        sticky == IF (r * Pow2Mod(64, b)) % b = 0 THEN 0 ELSE 1
        frac   == [i \in 1..65 |-> IF i = 1 THEN sticky ELSE FracBit(r, b, 66 - i)]
    IN  FloatRound(frac \o BitsOfNat(a \div b), 0 - 65)

\* x > y
FloatGT(x, y) ==
    LET e   == MinExp(x, y)
        a   == AlignTo(x, e)
        b   == AlignTo(y, e)
    IN  IF Len(a) # Len(b) THEN Len(a) > Len(b)
        ELSE \E i \in 1..Len(a) :
                /\ a[i] > b[i]
                /\ \A j \in (i + 1)..Len(a) : a[j] = b[j]

\* round(x): to the nearest integer, ties to the even one
FloatRoundToInt(x) ==
    IF x.m = <<>> \/ x.e >= 0 THEN x
    ELSE LET k      == 0 - x.e
             m      == x.m \o Zeros(k + 1 - Len(x.m))
             kept   == SubSeq(m, k + 1, Len(m))
             half   == m[k] = 1
             sticky == \E i \in 1..(k - 1) : m[i] = 1
             up     == half /\ (sticky \/ kept[1] = 1)
         IN  Canon(IF up THEN BitsAdd(kept, <<1>>) ELSE kept, 0)

\* int(x): truncation toward zero
FloatTrunc(x) ==
    IF x.m = <<>> THEN 0
    ELSE IF x.e >= 0 THEN NatOfBits(Zeros(x.e) \o x.m)
    ELSE IF 0 - x.e >= Len(x.m) THEN 0
    ELSE NatOfBits(SubSeq(x.m, 1 - x.e, Len(x.m)))

(***************************************************************************)
(* Session configuration.                                                   *)
(***************************************************************************)
sample_rate == 44100
chunk_size == 1024
buf_max_size == chunk_size * 10

\* bounds of the model: samples are -SampleMax..SampleMax, a frame is shown
\* by its first FrameLen samples, the device delivers at most MaxLoud frames
\* louder than the threshold in one record() call
SampleMax == 3
FrameLen == 2
MaxLoud == 1

Samples == (0 - SampleMax)..SampleMax
QuietFrame == [i \in 1..FrameLen |-> IF i = 1 THEN 0 ELSE 0 - 1]
LoudFrame == [i \in 1..FrameLen |-> IF i = 1 THEN SampleMax ELSE 0 - 1]
DeviceFrames == {QuietFrame, LoudFrame}

\* the silence_duration values a VoiceMsg is constructed with: 0.03125 (a
\* window of one frame) and 0.05 (a window of two frames)
SilenceDurations == {FloatDivInt(1, 32), FloatDivInt(1, 20)}

\* VoiceMsg.__init__, and the class attributes read through self
VoiceMsg(silence_threshold, silence_duration) ==
    [sample_rate |-> sample_rate,
     chunk_size |-> chunk_size,
     buf_max_size |-> buf_max_size,
     max_duration |-> 12,
     silence_threshold |-> silence_threshold,
     silence_duration |-> silence_duration]

\* a VoiceMsg of a build whose lines 40 and 42 read sample_rate = sr and
\* chunk_size = cs; line 43 then gives buf_max_size = cs * 10
VoiceMsgOf(sr, cs, silence_threshold, silence_duration) ==
    [VoiceMsg(silence_threshold, silence_duration) EXCEPT
        !.sample_rate = sr, !.chunk_size = cs, !.buf_max_size = cs * 10]

\* builds with another frame size, as <<sample_rate, chunk_size,
\* silence_duration>>: 512 samples with 1/64 s and 2048 samples with 1/16 s
\* (both a window of one frame)
OtherSessions ==
    {<<sample_rate, 512, FloatDivInt(1, 64)>>, <<sample_rate, 2048, FloatDivInt(1, 16)>>}

\* the build of the specification's scenario: 8 samples a second, frames of
\* one sample, silence_duration 1.0 (a window of eight frames)
ToySession == <<8, 1, FloatOfInt(1)>>

\* sessions whose sample_rate / chunk_size * silence_duration is not close to
\* a whole number of frames: 0.67 (1/64 s), 2.69 (1/16 s) and, at 8000
\* samples a second, 1.95 (1/4 s)
WindowSessions ==
    {<<sample_rate, chunk_size, FloatDivInt(1, 64)>>,
     <<sample_rate, chunk_size, FloatDivInt(1, 16)>>,
     <<8000, chunk_size, FloatDivInt(1, 4)>>}

Sessions ==
    {<<sample_rate, chunk_size, sd>> : sd \in SilenceDurations}
        \cup OtherSessions \cup {ToySession} \cup WindowSessions

VARIABLES
    self,               \* the VoiceMsg object's fields
    q,                  \* Queue(maxsize): the frames queued, oldest first
    q_maxsize,          \* Queue(maxsize): its maxsize
    stopped_event,      \* threading.Event: TRUE once set
    listen_pc,          \* _listen: "unstarted", "check", "read", "put", "exited", "crashed"
    listen_frame,       \* _listen: the frame read and not yet put
    record_pc,          \* _record_to_file: "unstarted", "check", "get", "classify", "encode", "set", "exited"
    duration_so_far,    \* _record_to_file local
    frames,             \* _record_to_file local: the recording so far
    frames_to_inspect,  \* _record_to_file local: the window being read
    is_silent,          \* _record_to_file local
    main_pc,            \* record(): "start_listen", "start_record", "loop", "join_listen", "join_record", "returned"; "calibrate" inside calibrate()
    state,              \* "ACCUMULATING" until line 182 decides to save, then "DONE"
    windows,            \* history: every window classified, with its classification
    encoded,            \* history: the frame lists written to the WAV file
    cancel,             \* history: "none", or the state in which KeyboardInterrupt arrived
    nloud,              \* history: loud frames delivered by the device
    produced,           \* history: the frames _listen has read from the device, in order
    calib_pc,           \* calibrate(): "idle", "open", "read", "returned"
    duration,           \* calibrate local: the observation time
    calib_range,        \* calibrate: the length of the range() of its for loop
    frame_volumes,      \* calibrate local
    calibrated_value,   \* calibrate local, and its return value
    calib_read,         \* history: the frames the device delivered to calibrate()
    scenario            \* the device's input when it is scripted: k silent windows, m of tone, then silence

vars == <<self, q, q_maxsize, stopped_event, listen_pc, listen_frame, record_pc,
          duration_so_far, frames, frames_to_inspect, is_silent, main_pc,
          state, windows, encoded, cancel, nloud, produced,
          calib_pc, duration, calib_range, frame_volumes, calibrated_value, calib_read,
          scenario>>

listen_vars == <<listen_pc, listen_frame>>
record_vars == <<record_pc, duration_so_far, frames, frames_to_inspect, is_silent>>
hist_vars == <<state, windows, encoded, cancel>>
calib_vars == <<calib_pc, duration, calib_range, frame_volumes, calibrated_value, calib_read>>

\* what no step of record()'s threads changes
other_vars == <<calib_vars, q_maxsize, scenario>>

\* calibrate() is not running
CalibrateIdle ==
    /\ calib_pc = "idle"
    /\ duration = FloatOfInt(0)
    /\ calib_range = 0
    /\ frame_volumes = <<>>
    /\ calibrated_value = 0
    /\ calib_read = <<>>

NoFrame == <<>>

\* the device's input is not scripted
NoScenario == [k |-> 0, m |-> 0, silence |-> NoFrame, tone |-> NoFrame]

\* Queue(maxsize=int(round(self.buf_max_size / self.chunk_size)))
QueueMaxsize(vm) ==
    FloatTrunc(FloatRoundToInt(FloatDivInt(vm.buf_max_size, vm.chunk_size)))

\* the state at the start of record(), before the threads are started
RecordEntry(vm) ==
    /\ self = vm
    /\ q = <<>>
    /\ q_maxsize = QueueMaxsize(vm)
    /\ stopped_event = FALSE
    /\ listen_pc = "unstarted"
    /\ listen_frame = NoFrame
    /\ record_pc = "unstarted"
    /\ duration_so_far = FloatOfInt(0)
    /\ frames = <<>>
    /\ frames_to_inspect = <<>>
    /\ is_silent = FALSE
    /\ main_pc = "start_listen"
    /\ state = "ACCUMULATING"
    /\ windows = <<>>
    /\ encoded = <<>>
    /\ cancel = "none"
    /\ nloud = 0
    /\ produced = <<>>
    /\ CalibrateIdle

Init ==
    /\ \E sd \in SilenceDurations : RecordEntry(VoiceMsg(SampleMax - 1, sd))
    /\ scenario = NoScenario

(***************************************************************************)
(* Pure helpers.                                                            *)
(***************************************************************************)
RECURSIVE SeqMax(_)
SeqMax(s) ==
    IF Len(s) = 1 THEN s[1]
    ELSE LET r == SeqMax(Tail(s)) IN IF s[1] > r THEN s[1] ELSE r

\* max(frame)
max(frame) == SeqMax(frame)

\* the two bytes of an int16 sample: two's complement, low byte first
SampleBytes(s) ==
    LET u == (s + 65536) % 65536 IN <<u % 256, u \div 256>>

\* stream.read(self.chunk_size): the bytes object PyAudio returns for a frame
\* whose samples are fr
RECURSIVE stream_read(_)
stream_read(fr) ==
    IF fr = <<>> THEN <<>> ELSE SampleBytes(Head(fr)) \o stream_read(Tail(fr))

\* array('h', data): the bytes taken two by two as signed 16-bit integers
array_h(data) ==
    [i \in 1..(Len(data) \div 2) |->
        LET u == data[2 * i - 1] + 256 * data[2 * i]
        IN  IF u >= 32768 THEN u - 65536 ELSE u]

\* VoiceMsg._is_silent
RECURSIVE IsSilentFrom(_, _, _)
IsSilentFrom(vm, fs, i) ==
    IF i > Len(fs) THEN TRUE
    ELSE IF max(fs[i]) > vm.silence_threshold THEN FALSE
    ELSE IsSilentFrom(vm, fs, i + 1)

_is_silent(vm, fs) == IsSilentFrom(vm, fs, 1)

\* int(self.sample_rate / self.chunk_size * self.silence_duration), tabulated
\* as pairs <<session, frames>>
FramesPerWindow ==
    {<<c, FloatTrunc(FloatMul(FloatDivInt(c[1], c[2]), c[3]))>> : c \in Sessions}

\* round(sample_rate / frame_size * silence_duration), tabulated as pairs
\* <<session, frames>>
RoundedFramesPerWindow ==
    {<<c, FloatTrunc(FloatRoundToInt(FloatMul(FloatDivInt(c[1], c[2]), c[3])))>> :
        c \in Sessions}

RoundedWindowSize(vm) ==
    (CHOOSE p \in RoundedFramesPerWindow :
        p[1] = <<vm.sample_rate, vm.chunk_size, vm.silence_duration>>)[2]

WindowSize_Rounded(vm) == RoundedWindowSize(vm)

WindowSize(vm) ==
    (CHOOSE p \in FramesPerWindow :
        p[1] = <<vm.sample_rate, vm.chunk_size, vm.silence_duration>>)[2]

\* the 20 of line 182
AbortFactor == 20

\* self.silence_duration * 20
AbortAfter(vm) == FloatMul(vm.silence_duration, FloatOfInt(AbortFactor))

\* Queue(maxsize=int(round(self.buf_max_size / self.chunk_size)))
maxsize == FloatTrunc(FloatRoundToInt(FloatDivInt(buf_max_size, chunk_size)))

(***************************************************************************)
(* record(): the calling thread.                                            *)
(***************************************************************************)
MainStartListen ==
    /\ main_pc = "start_listen"
    /\ main_pc' = "start_record"
    /\ listen_pc' = "check"
    /\ UNCHANGED <<other_vars, produced, self, q, stopped_event, listen_frame, record_vars, hist_vars, nloud>>

MainStartRecord ==
    /\ main_pc = "start_record"
    /\ main_pc' = "loop"
    /\ record_pc' = "check"
    /\ UNCHANGED <<other_vars, produced, self, q, stopped_event, listen_vars, duration_so_far, frames,
                   frames_to_inspect, is_silent, hist_vars, nloud>>

MainPoll_ClearsEvent ==
    /\ main_pc = "loop"
    /\ stopped_event
    /\ stopped_event' = FALSE
    /\ main_pc' = "join_listen"
    /\ UNCHANGED <<other_vars, produced, self, q, listen_vars, record_vars, hist_vars, nloud>>

\* one turn of the supervising loop that finds the event set
MainPoll ==
    /\ main_pc = "loop"
    /\ stopped_event
    /\ main_pc' = "join_listen"
    /\ UNCHANGED <<other_vars, produced, self, q, stopped_event, listen_vars, record_vars, hist_vars, nloud>>

\* the user's Ctrl-C inside the try block
KeyboardInterrupt ==
    /\ main_pc = "loop"
    /\ stopped_event' = TRUE
    /\ main_pc' = "join_listen"
    /\ cancel' = IF cancel = "none" THEN state ELSE cancel
    /\ UNCHANGED <<other_vars, produced, self, q, listen_vars, record_vars, state, windows, encoded, nloud>>

MainJoinListen ==
    /\ main_pc = "join_listen"
    /\ listen_pc \in {"exited", "crashed"}
    /\ main_pc' = "join_record"
    /\ UNCHANGED <<other_vars, produced, self, q, stopped_event, listen_vars, record_vars, hist_vars, nloud>>

MainJoinRecord_NoWait ==
    /\ main_pc = "join_record"
    /\ main_pc' = "returned"
    /\ UNCHANGED <<other_vars, produced, self, q, stopped_event, listen_vars, record_vars, hist_vars, nloud>>

\* record_t.join()
MainJoinRecord ==
    /\ main_pc = "join_record"
    /\ record_pc = "exited"
    /\ main_pc' = "returned"
    /\ UNCHANGED <<other_vars, produced, self, q, stopped_event, listen_vars, record_vars, hist_vars, nloud>>

(***************************************************************************)
(* _listen: the listener thread.                                            *)
(***************************************************************************)
ListenCheck ==
    /\ listen_pc = "check"
    /\ listen_pc' = IF stopped_event THEN "exited" ELSE "read"
    /\ UNCHANGED <<other_vars, produced, self, q, stopped_event, listen_frame, record_vars, main_pc,
                   hist_vars, nloud>>

\* stream.read(self.chunk_size) returns a frame
ListenRead ==
    /\ listen_pc = "read"
    /\ \E f \in DeviceFrames :
          /\ f = LoudFrame => nloud < MaxLoud
          /\ listen_frame' = array_h(stream_read(f))
          /\ nloud' = IF f = LoudFrame THEN nloud + 1 ELSE nloud
          /\ produced' = Append(produced, f)
    /\ listen_pc' = "put"
    /\ UNCHANGED <<other_vars, self, q, stopped_event, record_vars, main_pc, hist_vars>>

\* stream.read(self.chunk_size) raises: the exception ends the thread
ListenReadFails ==
    /\ listen_pc = "read"
    /\ listen_pc' = "crashed"
    /\ UNCHANGED <<other_vars, produced, self, q, stopped_event, listen_frame, record_vars, main_pc,
                   hist_vars, nloud>>

ListenPut_Unbounded ==
    /\ listen_pc = "put"
    /\ q' = Append(q, listen_frame)
    /\ listen_frame' = NoFrame
    /\ listen_pc' = "check"
    /\ UNCHANGED <<other_vars, produced, self, stopped_event, record_vars, main_pc, hist_vars, nloud>>

\* q.put(frame): block=True, so it waits for a free slot and never raises Full
ListenPut ==
    /\ listen_pc = "put"
    /\ Len(q) < q_maxsize
    /\ q' = Append(q, listen_frame)
    /\ listen_frame' = NoFrame
    /\ listen_pc' = "check"
    /\ UNCHANGED <<other_vars, produced, self, stopped_event, record_vars, main_pc, hist_vars, nloud>>

(***************************************************************************)
(* _record_to_file: the recorder thread.                                    *)
(***************************************************************************)
RecordCheck ==
    /\ record_pc = "check"
    /\ IF stopped_event
       THEN /\ record_pc' = "exited"
            /\ UNCHANGED <<duration_so_far, frames_to_inspect>>
       ELSE /\ duration_so_far' = FloatAdd(duration_so_far, self.silence_duration)
            /\ frames_to_inspect' = <<>>
            /\ record_pc' = IF WindowSize(self) > 0 THEN "get" ELSE "classify"
    /\ UNCHANGED <<other_vars, produced, self, q, stopped_event, listen_vars, frames, is_silent, main_pc,
                   hist_vars, nloud>>

RecordGet_LeavesInQueue ==
    /\ record_pc = "get"
    /\ q # <<>>
    /\ frames_to_inspect' = Append(frames_to_inspect, Head(q))
    /\ record_pc' = IF Len(frames_to_inspect') < WindowSize(self) THEN "get" ELSE "classify"
    /\ UNCHANGED <<other_vars, produced, self, q, stopped_event, listen_vars,
                   duration_so_far, frames, is_silent, main_pc, hist_vars, nloud>>

\* frame = q.get(); frames_to_inspect.append(frame)
RecordGet ==
    /\ record_pc = "get"
    /\ q # <<>>
    /\ frames_to_inspect' = Append(frames_to_inspect, Head(q))
    /\ q' = Tail(q)
    /\ record_pc' = IF Len(frames_to_inspect') < WindowSize(self) THEN "get" ELSE "classify"
    /\ UNCHANGED <<other_vars, produced, self, stopped_event, listen_vars, duration_so_far, frames, is_silent,
                   main_pc, hist_vars, nloud>>

\* lines 177-179: the frames list after a window classified silent or not
KeepFrames_AppendAlways(fr, window, silent) == fr \o window

KeepFrames(fr, window, silent) == IF ~silent THEN fr \o window ELSE fr

\* the condition of line 182, on the frames list after line 179
ShouldSave_OnlyAfterAbortTime(vm, fr, dur) == FloatGT(dur, AbortAfter(vm))

ShouldSave(vm, fr, dur) ==
    fr # <<>> \/ (fr = <<>> /\ FloatGT(dur, AbortAfter(vm)))

RecordClassify_MaxDurationCutoff ==
    /\ record_pc = "classify"
    /\ is_silent' = _is_silent(self, frames_to_inspect)
    /\ frames' = KeepFrames(frames, frames_to_inspect, is_silent')
    /\ windows' = Append(windows, [w |-> frames_to_inspect, silent |-> is_silent'])
    /\ IF \/ is_silent' /\ ShouldSave(self, frames', duration_so_far)
          \/ FloatGT(duration_so_far, FloatOfInt(self.max_duration))
       THEN record_pc' = "encode" /\ state' = "DONE"
       ELSE record_pc' = "check" /\ UNCHANGED state
    /\ UNCHANGED <<other_vars, produced, self, q, stopped_event, listen_vars, duration_so_far,
                   frames_to_inspect, main_pc, encoded, cancel, nloud>>

\* lines 175-182
RecordClassify ==
    /\ record_pc = "classify"
    /\ is_silent' = _is_silent(self, frames_to_inspect)
    /\ frames' = KeepFrames(frames, frames_to_inspect, is_silent')
    /\ windows' = Append(windows, [w |-> frames_to_inspect, silent |-> is_silent'])
    /\ IF is_silent' /\ ShouldSave(self, frames', duration_so_far)
       THEN record_pc' = "encode" /\ state' = "DONE"
       ELSE record_pc' = "check" /\ UNCHANGED state
    /\ UNCHANGED <<other_vars, produced, self, q, stopped_event, listen_vars, duration_so_far,
                   frames_to_inspect, main_pc, encoded, cancel, nloud>>

\* lines 187-200: the WAV file is written
RecordEncode ==
    /\ record_pc = "encode"
    /\ encoded' = Append(encoded, frames)
    /\ record_pc' = "set"
    /\ UNCHANGED <<other_vars, produced, self, q, stopped_event, listen_vars, duration_so_far, frames,
                   frames_to_inspect, is_silent, main_pc, state, windows, cancel, nloud>>

\* line 202: stopped_event.set()
RecordSet_EventNotSet ==
    /\ record_pc = "set"
    /\ record_pc' = "check"
    /\ UNCHANGED <<other_vars, produced, self, q, stopped_event, listen_vars, duration_so_far, frames,
                   frames_to_inspect, is_silent, main_pc, hist_vars, nloud>>

RecordSet ==
    /\ record_pc = "set"
    /\ stopped_event' = TRUE
    /\ record_pc' = "check"
    /\ UNCHANGED <<other_vars, produced, self, q, listen_vars, duration_so_far, frames, frames_to_inspect,
                   is_silent, main_pc, hist_vars, nloud>>

MainStep == MainStartListen \/ MainStartRecord \/ MainPoll \/ MainJoinListen \/ MainJoinRecord
ListenStep == ListenCheck \/ ListenRead \/ ListenPut
RecordStep == RecordCheck \/ RecordGet \/ RecordClassify \/ RecordEncode \/ RecordSet

\* a step of the program itself (not of the user or of a failing device)
ProgramStep == MainStep \/ ListenStep \/ RecordStep

\* some thread of the program is able to take a step: none of them is inside
\* a q.put on a full queue, a q.get on an empty queue or a join of a live thread
ProgramCanStep ==
    \/ main_pc \in {"start_listen", "start_record"}
    \/ main_pc = "loop" /\ stopped_event
    \/ main_pc = "join_listen" /\ listen_pc \in {"exited", "crashed"}
    \/ main_pc = "join_record" /\ record_pc = "exited"
    \/ listen_pc \in {"check", "read"}
    \/ listen_pc = "put" /\ Len(q) < q_maxsize
    \/ record_pc \in {"check", "classify", "encode", "set"}
    \/ record_pc = "get" /\ q # <<>>

Next ==
    \/ MainStartListen \/ MainStartRecord \/ MainPoll \/ KeyboardInterrupt
    \/ MainJoinListen \/ MainJoinRecord
    \/ ListenCheck \/ ListenRead \/ ListenReadFails \/ ListenPut
    \/ RecordCheck \/ RecordGet \/ RecordClassify \/ RecordEncode \/ RecordSet

Spec == Init /\ [][Next]_vars

(***************************************************************************)
(* _is_silent on its own: the recorder about to classify its first window,  *)
(* for every window of WindowSize frames the device can have delivered and  *)
(* every threshold.                                                         *)
(***************************************************************************)
AllFrames == [1..FrameLen -> Samples]
Thresholds == 0..SampleMax

InitClassify ==
    \E th \in Thresholds : \E f1 \in AllFrames : \E f2 \in AllFrames :
      \E sd \in {d \in SilenceDurations : WindowSize(VoiceMsg(th, d)) = 2} :
        /\ self = VoiceMsg(th, sd)
        /\ q = <<>>
        /\ q_maxsize = maxsize
        /\ stopped_event = FALSE
        /\ listen_pc = "check"
        /\ listen_frame = NoFrame
        /\ record_pc = "classify"
        /\ duration_so_far = sd
        /\ frames = <<>>
        /\ frames_to_inspect = <<f1, f2>>
        /\ is_silent = FALSE
        /\ main_pc = "loop"
        /\ state = "ACCUMULATING"
        /\ windows = <<>>
        /\ encoded = <<>>
        /\ cancel = "none"
        /\ nloud = 0
        /\ produced = <<f1, f2>>
        /\ CalibrateIdle
        /\ scenario = NoScenario

SpecClassify == InitClassify /\ [][RecordClassify]_vars

(***************************************************************************)
(* record() in builds with another frame size, without Ctrl-C and without   *)
(* a failing device.                                                        *)
(***************************************************************************)
InitCapacity ==
    /\ \/ \E c \in OtherSessions : RecordEntry(VoiceMsgOf(c[1], c[2], SampleMax - 1, c[3]))
       \/ RecordEntry(VoiceMsg(SampleMax - 1, FloatDivInt(1, 32)))
    /\ scenario = NoScenario

SpecCapacity == InitCapacity /\ [][ProgramStep]_vars

(***************************************************************************)
(* record() over sessions of many window lengths, without Ctrl-C and        *)
(* without a failing device.                                                *)
(***************************************************************************)
InitWindow ==
    /\ \E c \in WindowSessions \cup OtherSessions :
          RecordEntry(VoiceMsgOf(c[1], c[2], SampleMax - 1, c[3]))
    /\ scenario = NoScenario

SpecWindow == InitWindow /\ [][ProgramStep]_vars

(***************************************************************************)
(* record() with a scripted device, without Ctrl-C and without a failing    *)
(* device: k windows of silence, m windows of tone, then silence.           *)
(***************************************************************************)
MaxTone == 2

Scenarios(silence, tone) ==
    {[k |-> k, m |-> m, silence |-> silence, tone |-> tone] :
        k \in 0..AbortFactor, m \in 1..MaxTone}

InitScenario ==
    \/ \E sc \in Scenarios(<<0>>, <<100>>) :
          /\ RecordEntry([VoiceMsgOf(ToySession[1], ToySession[2], 50, ToySession[3])
                             EXCEPT !.max_duration = 1])
          /\ scenario = sc
    \/ \E sd \in SilenceDurations : \E sc \in Scenarios(QuietFrame, LoudFrame) :
          /\ RecordEntry(VoiceMsg(SampleMax - 1, sd))
          /\ scenario = sc

\* the frame the scripted device delivers next
ScriptFrame ==
    LET n == Len(produced) + 1
        w == WindowSize(self)
    IN  IF scenario.k * w < n /\ n <= (scenario.k + scenario.m) * w
        THEN scenario.tone ELSE scenario.silence

\* stream.read(self.chunk_size) returns the next frame of the script
ListenReadScript ==
    /\ listen_pc = "read"
    /\ listen_frame' = array_h(stream_read(ScriptFrame))
    /\ produced' = Append(produced, ScriptFrame)
    /\ listen_pc' = "put"
    /\ UNCHANGED <<other_vars, self, q, stopped_event, record_vars, main_pc, hist_vars, nloud>>

NextScenario ==
    \/ MainStep
    \/ ListenCheck \/ ListenReadScript \/ ListenPut
    \/ RecordStep

SpecScenario == InitScenario /\ [][NextScenario]_vars

(***************************************************************************)
(* calibrate(): the frames of the observation time are read one by one,     *)
(* then the threshold is set.  The observation time (4.0 s, 172 frames, in  *)
(* the code) is scaled down to 0.05 s (two frames) and 0.07 s (three).      *)
(***************************************************************************)
CalibrateDurations == {FloatDivInt(1, 20), FloatDivInt(7, 100)}

\* sorted(data)
RECURSIVE Insert(_, _)
Insert(x, s) ==
    IF s = <<>> THEN <<x>>
    ELSE IF x <= Head(s) THEN <<x>> \o s
    ELSE <<Head(s)>> \o Insert(x, Tail(s))

RECURSIVE sorted(_)
sorted(data) == IF data = <<>> THEN <<>> ELSE Insert(Head(data), sorted(Tail(data)))

\* statistics.median(data), data a non-empty list of non-negative ints: the
\* middle value, or the mean of the two middle values by true division
median(data) ==
    LET d == sorted(data)
        n == Len(d)
        i == n \div 2
    IN  IF n % 2 = 1 THEN FloatOfInt(d[i + 1])
        ELSE FloatDivInt(d[i] + d[i + 1], 2)

InitCalibrate ==
    \E d \in CalibrateDurations :
        /\ self = VoiceMsg(90, FloatOfInt(1))
        /\ q = <<>>
        /\ q_maxsize = maxsize
        /\ stopped_event = FALSE
        /\ listen_pc = "unstarted"
        /\ listen_frame = NoFrame
        /\ record_pc = "unstarted"
        /\ duration_so_far = FloatOfInt(0)
        /\ frames = <<>>
        /\ frames_to_inspect = <<>>
        /\ is_silent = FALSE
        /\ main_pc = "calibrate"
        /\ state = "ACCUMULATING"
        /\ windows = <<>>
        /\ encoded = <<>>
        /\ cancel = "none"
        /\ nloud = 0
        /\ produced = <<>>
        /\ calib_pc = "open"
        /\ duration = d
        /\ calib_range = 0
        /\ frame_volumes = <<>>
        /\ calibrated_value = 0
        /\ calib_read = <<>>
        /\ scenario = NoScenario

\* lines 113-122: the stream is opened and the range of the loop is computed
CalibrateOpen ==
    /\ calib_pc = "open"
    /\ calib_range' = FloatTrunc(FloatMul(FloatDivInt(self.sample_rate, self.chunk_size),
                                           duration))
    /\ calib_pc' = "read"
    /\ UNCHANGED <<self, q, q_maxsize, scenario, stopped_event, listen_vars, record_vars, main_pc, hist_vars,
                   nloud, produced, duration, frame_volumes, calibrated_value, calib_read>>

\* lines 123-124: one turn of the loop
CalibrateRead ==
    /\ calib_pc = "read"
    /\ Len(frame_volumes) < calib_range
    /\ \E f \in AllFrames :
          /\ frame_volumes' = Append(frame_volumes, max(stream_read(f)))
          /\ calib_read' = Append(calib_read, f)
    /\ UNCHANGED <<self, q, q_maxsize, scenario, stopped_event, listen_vars, record_vars, main_pc, hist_vars,
                   nloud, produced, calib_pc, duration, calib_range, calibrated_value>>

\* lines 127-135: the loop is over
CalibrateSet ==
    /\ calib_pc = "read"
    /\ Len(frame_volumes) = calib_range
    /\ calibrated_value' = FloatTrunc(FloatMul(median(frame_volumes), FloatOfInt(2)))
    /\ self' = [self EXCEPT !.silence_threshold = calibrated_value']
    /\ calib_pc' = "returned"
    /\ UNCHANGED <<q, q_maxsize, scenario, stopped_event, listen_vars, record_vars, main_pc, hist_vars,
                   nloud, produced, duration, calib_range, frame_volumes, calib_read>>

NextCalibrate == CalibrateOpen \/ CalibrateRead \/ CalibrateSet

SpecCalibrate == InitCalibrate /\ [][NextCalibrate]_vars

(***************************************************************************)
(* Properties.                                                              *)
(***************************************************************************)

\* C1: the listener's push never blocks: with the queue holding maxsize
\* frames the put still completes at once (dropping the frame).
C1_PushNeverBlocks ==
    (listen_pc = "put" /\ Len(q) >= q_maxsize) => ENABLED ListenPut

\* C2: once the recorder has decided DONE and set the event, record() goes on
\* to return: as long as it has not returned, some thread can take a step.
C2_DoneThenReturns ==
    (state = "DONE" /\ stopped_event /\ record_pc \notin {"encode", "set"}
        /\ cancel = "none" /\ listen_pc # "crashed")
    => (main_pc = "returned" \/ ProgramCanStep)

Abs(n) == IF n < 0 THEN 0 - n ELSE n
PeakAbs(frame) == SeqMax([i \in 1..Len(frame) |-> Abs(frame[i])])

\* C3: a window is classified silent exactly when every frame's peak absolute
\* amplitude is at most silence_threshold.
C3_SilentIffPeakAbsWithinThreshold ==
    \A i \in 1..Len(windows) :
        windows[i].silent <=>
            \A j \in 1..Len(windows[i].w) :
                PeakAbs(windows[i].w[j]) <= self.silence_threshold

\* C4: a silent window classified with a non-empty recording is the last one:
\* the recorder goes straight to saving, then to setting the event, and reads
\* no frame and classifies no window in between.
C4_DoneOnSameWindow ==
    [][ /\ (record_pc = "classify" /\ record_pc' # "classify"
               /\ frames # <<>> /\ is_silent')
           => (record_pc' = "encode" /\ state' = "DONE")
        /\ (record_pc = "encode" /\ record_pc' # "encode")
           => (record_pc' = "set" /\ encoded' = Append(encoded, frames))
        /\ (record_pc = "set" /\ record_pc' # "set") => stopped_event'
        /\ (record_pc \in {"encode", "set"})
           => /\ record_pc' \in {"encode", "set", "check"}
              /\ frames_to_inspect' = frames_to_inspect
              /\ windows' = windows
              /\ (q' = q \/ q' = Append(q, listen_frame))
      ]_vars

C4_Witness ==
    /\ record_pc = "check" /\ stopped_event /\ state = "DONE"
    /\ frames # <<>> /\ encoded = <<frames>>
    /\ windows[Len(windows)].silent

\* C5: with no non-silent window ever seen, DONE is decided on the 21st
\* window, not before.
C5_AbortOnWindow21 ==
    (state = "DONE" /\ frames = <<>>) => Len(windows) = AbortFactor + 1

RECURSIVE NonSilentFrames(_)
NonSilentFrames(ws) ==
    IF ws = <<>> THEN <<>>
    ELSE (IF ws[1].silent THEN <<>> ELSE ws[1].w) \o NonSilentFrames(Tail(ws))

C7_NoEncodeAfterCancel ==
    cancel = "ACCUMULATING" => (encoded = <<>> /\ record_pc # "encode")

\* C8: after a KeyboardInterrupt both threads exit and record() returns: as
\* long as it has not returned, some thread can take a step (the recorder is
\* not left waiting on an empty queue).
C8_CancelThenReturns ==
    (cancel # "none" /\ listen_pc # "crashed")
    => (main_pc = "returned" \/ ProgramCanStep)

\* C9: after a failed device read the event is set, the recorder exits
\* without saving and record() returns.
C9_DeviceErrorThenReturns ==
    (listen_pc = "crashed" /\ cancel = "none" /\ state = "ACCUMULATING")
    => (main_pc = "returned" \/ ProgramCanStep)

\* C10: the WAV file is written at most once, never while ACCUMULATING, and
\* exactly once when the DONE decision has been taken and acted on.
C10_EncodedOnceAfterDone ==
    /\ Len(encoded) <= 1
    /\ encoded # <<>> => state = "DONE"
    /\ (state = "DONE" /\ record_pc # "encode") => Len(encoded) = 1

C10_Witness ==
    /\ main_pc = "returned" /\ cancel = "none"
    /\ state = "DONE" /\ Len(encoded) = 1

\* C11: when nothing but silence was heard (DONE decided with an empty
\* recording, no Ctrl-C), record() does not return normally: it leaves by
\* raising NoAudioHeardException.
C11_NoAudioHeardRaises ==
    (state = "DONE" /\ frames = <<>> /\ cancel = "none") => main_pc # "returned"

\* twice the median of a non-empty sequence of integers, in integers
TwiceMedian(s) ==
    LET d == sorted(s)
        n == Len(d)
    IN  IF n % 2 = 1 THEN 2 * d[(n \div 2) + 1]
        ELSE d[n \div 2] + d[(n \div 2) + 1]

\* the peak of each frame: the greatest of its samples, the volume that
\* _is_silent compares with the threshold
FramePeaks(fs) == [i \in 1..Len(fs) |-> max(fs[i])]

\* C12: when calibrate() has returned, silence_threshold is the median of the
\* peaks of the frames it sampled, times 2.0, and it is the value returned.
C12_ThresholdIsTwiceMedianPeak ==
    calib_pc = "returned"
    => /\ calibrated_value = self.silence_threshold
       /\ self.silence_threshold = TwiceMedian(FramePeaks(calib_read))

\* C13: record() starts the listener thread once and the recorder thread
\* once (each leaves "unstarted" in its own start step of the caller and is
\* never started again), and it returns only when both threads have ended.
C13_OneThreadEachJoinedBeforeReturn ==
    [][ /\ (listen_pc = "unstarted" /\ listen_pc' # "unstarted")
           <=> (main_pc = "start_listen" /\ main_pc' = "start_record")
        /\ (record_pc = "unstarted" /\ record_pc' # "unstarted")
           <=> (main_pc = "start_record" /\ main_pc' = "loop")
        /\ listen_pc # "unstarted" => listen_pc' # "unstarted"
        /\ record_pc # "unstarted" => record_pc' # "unstarted"
        /\ main_pc' = "returned"
           => (listen_pc' \in {"exited", "crashed"} /\ record_pc' = "exited")
      ]_vars

C13_Witness ==
    /\ main_pc = "returned"
    /\ listen_pc = "exited" /\ record_pc = "exited"
    /\ produced # <<>>

\* the capacity_frames of the channel
CapacityFrames == 10

\* C14: whatever the frame size of the build and however the listener and
\* the recorder interleave, the queue is created with room for 10 frames and
\* never holds more than 10.
C14_QueueWithinCapacity ==
    /\ q_maxsize = CapacityFrames
    /\ Len(q) <= CapacityFrames

C14_Witness ==
    /\ self.chunk_size # chunk_size
    /\ Len(q) = CapacityFrames
    /\ listen_pc = "put"

RECURSIVE WindowFrames(_)
WindowFrames(ws) == IF ws = <<>> THEN <<>> ELSE ws[1].w \o WindowFrames(Tail(ws))

\* the frames the recorder has taken from the queue so far, in the order it
\* took them: the windows classified, and the window being read
Dequeued ==
    WindowFrames(windows)
        \o (IF record_pc \in {"get", "classify"} THEN frames_to_inspect ELSE <<>>)

\* C15: the frames the recorder has dequeued are the frames the listener read
\* from the device, in the order it read them, each once: the frames read are
\* the frames dequeued, then the frames queued, then the frame the listener
\* holds, with none missing in between.
C15_DequeuedInProductionOrder ==
    produced = Dequeued \o q \o (IF listen_pc = "put" THEN <<listen_frame>> ELSE <<>>)

C15_Witness ==
    /\ \E i \in 1..Len(Dequeued) : \E j \in 1..Len(Dequeued) :
          i < j /\ Dequeued[i] = LoudFrame /\ Dequeued[j] = QuietFrame
    /\ Len(q) >= 2
    /\ listen_pc = "put"

\* the frames of the scenario's m windows of tone
ToneFrames == [i \in 1..(scenario.m * WindowSize(self)) |-> scenario.tone]

\* C16: with k <= 20 windows of silence, then m windows of tone, then
\* silence, the recorder decides DONE on the first silent window after the
\* tone (window k + m + 1), and what it writes is the frames of the m tone
\* windows, in order.
C16_ScenarioRecordsTheTone ==
    state = "DONE"
    => /\ Len(windows) = scenario.k + scenario.m + 1
       /\ frames = ToneFrames
       /\ encoded # <<>> => encoded = <<ToneFrames>>

WholeFramesPerWindow ==
    {<<c, LET x == FloatMul(FloatDivInt(c[1], c[2]), c[3])
              r == FloatRoundToInt(x)
          IN  IF FloatGT(r, x) THEN FloatTrunc(r) - 1 ELSE FloatTrunc(r)>> :
        c \in Sessions}

WholeWindowSize(vm) ==
    (CHOOSE p \in WholeFramesPerWindow :
        p[1] = <<vm.sample_rate, vm.chunk_size, vm.silence_duration>>)[2]

\* C18, as the code has it: every window the recorder classifies holds
\* sample_rate / frame_size * silence_duration frames truncated to a whole
\* number (none when the product is below 1), and duration_so_far changes
\* only at the start of an iteration, by one silence_duration.
C18_WindowIsTruncatedFrameCount ==
    [][ /\ (record_pc = "classify" /\ record_pc' # "classify")
           => Len(frames_to_inspect) = WholeWindowSize(self)
        /\ duration_so_far' # duration_so_far
           => /\ record_pc = "check" /\ record_pc' \in {"get", "classify"}
              /\ duration_so_far' = FloatAdd(duration_so_far, self.silence_duration)
        /\ (record_pc = "check" /\ record_pc' \in {"get", "classify"})
           => duration_so_far' # duration_so_far
      ]_vars

\* two windows of two frames each where rounding gives three
C18_Witness ==
    /\ Len(windows) = 2
    /\ \A i \in 1..2 : Len(windows[i].w) = 2
    /\ RoundedWindowSize(self) = 3
    /\ duration_so_far = FloatAdd(self.silence_duration, self.silence_duration)

\* C18: every window the recorder classifies holds round(sample_rate /
\* frame_size * silence_duration) frames, and duration_so_far changes only at
\* the start of an iteration, by one silence_duration.
C18_WindowIsRoundedFrameCount ==
    [][ /\ (record_pc = "classify" /\ record_pc' # "classify")
           => Len(frames_to_inspect) = RoundedWindowSize(self)
        /\ duration_so_far' # duration_so_far
           => /\ record_pc = "check" /\ record_pc' \in {"get", "classify"}
              /\ duration_so_far' = FloatAdd(duration_so_far, self.silence_duration)
        /\ (record_pc = "check" /\ record_pc' \in {"get", "classify"})
           => duration_so_far' # duration_so_far
      ]_vars

\* C19: no step of the listener, the recorder or the caller resets the stop
\* event: once set it stays set.
C19_EventNeverReset == [][stopped_event => stopped_event']_vars

\* the event set by both of its setters (Ctrl-C, then the recorder's save)
\* and seen by both threads and the caller
C19_Witness ==
    /\ stopped_event
    /\ cancel = "ACCUMULATING" /\ state = "DONE" /\ encoded # <<>>
    /\ listen_pc = "exited" /\ record_pc = "exited" /\ main_pc = "returned"

\* C20: when the recorder gives up on silence (DONE with an empty recording,
\* no Ctrl-C, no device failure), that is on the 21st window; it writes the
\* file once, with no frames, before it sets the stop event; and record()
\* goes on to return: as long as it has not, some thread can take a step.
C20_AbortEncodesEmptyThenReturns ==
    (state = "DONE" /\ frames = <<>> /\ cancel = "none" /\ listen_pc # "crashed")
    => /\ Len(windows) = AbortFactor + 1
       /\ \A i \in 1..Len(windows) : windows[i].silent
       /\ encoded = (IF record_pc = "encode" THEN <<>> ELSE << <<>> >>)
       /\ record_pc \in {"encode", "set"} => ~stopped_event
       /\ main_pc = "returned" \/ ProgramCanStep

====
